---- MODULE Spec2Model ----
(***************************************************************************)
(* Model of the build-cache manager of engine/cache/manager.go:            *)
(* NewManager, the Import loop, the Export loop, Import, Export,           *)
(* pushLayer, Close and the solver-facing Query/Records/Load/Save.         *)
(*                                                                         *)
(* Time is counted in abstract units.  A timer or a context deadline is a  *)
(* number: NoTimer when it is not armed (or can never fire), 0 when it has *)
(* fired, n > 0 when n units remain.  Under Spec timers fire in any order  *)
(* (action Expire: no assumption on the speed of the goroutines); under    *)
(* SpecTimed all of them run down together (action Tick) and a goroutine   *)
(* that can take a step takes it before time passes.                       *)
(***************************************************************************)
EXTENDS Integers, Sequences, FiniteSets, TLC

\* ---- bounds of the model ----
MaxDuration == 1     \* largest duration GetConfig returns
MaxDeadline == 2     \* largest deadline of a ctx handed to Close
MaxImports == 2      \* Import runs started by timers (the initial one included)
MaxExports == 1      \* Export runs started by the ExportPeriod timer
MaxRecords == 2      \* longest ExportRecords list of UpdateCacheRecords
MaxLayers == 2       \* most descriptors of a remote
MaxElapsed == 4      \* the time since a Close call is counted up to here
MaxSyncCalls == 2    \* calls of StartCacheMountSynchronization on the degenerate manager

\* ---- program constants, in time units ----
ImportTimeout == 3   \* time.Minute of the Import loop's context.WithTimeout

NoTimer == -1
Nil == "nil"

VARIABLES
    ServiceURL,          \* ManagerConfig.ServiceURL
    nm,                  \* NewManager: where it is, what it returned
    runtimeConfig,       \* m.runtimeConfig
    inner,               \* m.inner, the combined view
    mu,                  \* m.mu
    startCloseCh,        \* m.startCloseCh
    doneCh,              \* m.doneCh
    stopCacheMountSync,  \* m.stopCacheMountSync
    imp,                 \* the Import run of each caller
    importLoop,          \* the goroutine of lines 94-107
    cancelG,             \* the goroutine of lines 90-93 and importParentCtx
    exportLoop,          \* the goroutine of lines 110-129
    ex,                  \* the Export run
    closer,              \* the callers of Close
    client,              \* the callers of Query/Records/Load/Save
    panicked,            \* a goroutine panicked: the process is gone
    hist,                \* what has happened so far (history, not program state)
    keyStore,            \* m.KeyStore and m.ResultStore: the local cache
    router               \* a Router of package router

\* the variables of the cache manager
managerVars == <<ServiceURL, nm, runtimeConfig, inner, mu, startCloseCh, doneCh,
                 stopCacheMountSync, imp, importLoop, cancelG, exportLoop, ex,
                 closer, client, panicked, hist, keyStore>>

vars == <<ServiceURL, nm, runtimeConfig, inner, mu, startCloseCh, doneCh,
          stopCacheMountSync, imp, importLoop, cancelG, exportLoop, ex,
          closer, client, panicked, hist, keyStore, router>>

\* ---- views ----
NilView == [imported |-> 0, local |-> FALSE]
LocalView == [imported |-> 0, local |-> TRUE]

\* solver.NewCombinedCacheManager([importedCache], m.localCache) for the
\* imported cache of Import number g
NewCombinedCacheManager(g) == [imported |-> g, local |-> TRUE]

\* ---- timers ----
\* time.After(d), context.WithTimeout(_, d): fired at once when d <= 0
After(d) == IF d <= 0 THEN 0 ELSE d

Durations == (-1) .. MaxDuration

Config == [ImportPeriod : Durations, ExportPeriod : Durations, ExportTimeout : Durations]

ZeroConfig == [ImportPeriod |-> 0, ExportPeriod |-> 0, ExportTimeout |-> 0]

\* the test of line 78
ConfigRejected(config) ==
    config.ImportPeriod = 0 \/ config.ExportPeriod = 0 \/ config.ExportTimeout = 0

\* ---- channels ----
\* close(ch): closing a closed channel panics
CloseChan(ch) == IF ch = "closed" THEN "panic" ELSE "closed"

\* ---- Import: layer metadata ----
CacheLayers ==
    {[Annotations |-> FALSE, DiffID |-> FALSE, CreatedAt |-> "zero"]} \cup
    [Annotations : {TRUE}, DiffID : BOOLEAN, CreatedAt : {"zero", "valid", "outOfRange"}]

\* descriptorProviderPair: the error it returns, Nil when it returns a pair
descriptorProviderPair(layerMetadata) ==
    IF ~layerMetadata.Annotations THEN "missing annotations"
    ELSE IF ~layerMetadata.DiffID THEN "missing diffID"
    ELSE IF layerMetadata.CreatedAt = "outOfRange" THEN "MarshalText error"
    ELSE Nil

RECURSIVE FirstLayerError(_)
\* the loop of lines 285-291: the first error of descriptorProviderPair
FirstLayerError(layers) ==
    IF layers = <<>> THEN Nil
    ELSE IF descriptorProviderPair(Head(layers)) # Nil
         THEN descriptorProviderPair(Head(layers))
         ELSE FirstLayerError(Tail(layers))

ImportLayerLists == {<<>>} \cup {<<l>> : l \in CacheLayers}

\* the outcomes of remotecache.ParseConfig and remotecache.NewCacheKeyStorage
LibraryOutcomes == {Nil, "parse error", "key storage error"}

\* what Import has after line 303: the error it returns, or the new view
ImportBuild(g, layers, lib) ==
    IF FirstLayerError(layers) # Nil
    THEN [err |-> FirstLayerError(layers), newInner |-> NilView]
    ELSE IF lib # Nil
    THEN [err |-> lib, newInner |-> NilView]
    ELSE [err |-> Nil, newInner |-> NewCombinedCacheManager(g)]

Importers == {"main", "loop"}

IdleImport == [pc |-> "idle", newInner |-> NilView, err |-> Nil]

\* the lock is free for a writer
CanLock == mu.writer = Nil /\ mu.readers = {}
\* the lock is free for a reader
CanRLock == mu.writer = Nil

\* ---- Export: what the server and the worker answer ----
\* the outcome of pushLayer for one descriptor: "prepare error" is an error of
\* GetLayerUploadURL, ReaderAt or http.NewRequest (before the PUT is sent),
\* "http error" an error of httpClient.Do, "status 500" a response that is
\* not 200
PushOutcomes == {"ok", "prepare error", "http error", "status 500"}

RECURSIVE SeqsUpTo(_, _)
\* the sequences over S of length at most n
SeqsUpTo(S, n) ==
    IF n = 0 THEN {<<>>}
    ELSE SeqsUpTo(S, n - 1) \cup
         {Append(s, x) : s \in {t \in SeqsUpTo(S, n - 1) : Len(t) = n - 1}, x \in S}

\* the pushes of the descriptors of a remote: pushLayer is not called after
\* the first one that fails, so at most one entry is not "ok"
LayerLists ==
    {s \in SeqsUpTo(PushOutcomes, MaxLayers) :
       Cardinality({k \in 1 .. Len(s) : s[k] # "ok"}) <= 1}

\* a requested record, with what the worker will answer for it: is the ref
\* found by CacheManager().Get, does GetRemotes fail, how many remotes does it
\* return, and the descriptors of remotes[0] with the outcome of their push
Records ==
    {[ref |-> "not found", remotesErr |-> FALSE, remotes |-> 0, layers |-> <<>>],
     [ref |-> "found", remotesErr |-> TRUE, remotes |-> 0, layers |-> <<>>],
     [ref |-> "found", remotesErr |-> FALSE, remotes |-> 0, layers |-> <<>>]} \cup
    [ref : {"found"}, remotesErr : {FALSE}, remotes : {1, 2},
     layers : LayerLists]

\* every ExportRecords list UpdateCacheRecords may return
AllResponses == SeqsUpTo(Records, MaxRecords)

OkRecord == [ref |-> "found", remotesErr |-> FALSE, remotes |-> 1, layers |-> <<"ok">>]
BadRecord == [ref |-> "found", remotesErr |-> FALSE, remotes |-> 1, layers |-> <<"status 500">>]

\* the ExportRecords lists of the runs that are about the lifecycle
FewResponses == {<<>>, <<OkRecord>>, <<BadRecord>>}

\* remote.Descriptors of a record: the digests of its layers
Descriptors(record) == [k \in 1 .. Len(record.layers) |-> k]

\* the RecordLayers of line 228-231 for the record at position i
RecordLayers(i, record) == [RecordDigest |-> i, Layers |-> Descriptors(record)]

\* the UpdateCacheLayersRequest of line 238, before it is sent
NoRequest == [sent |-> FALSE, UpdatedRecords |-> <<>>]

\* the UpdateCacheRecordsRequest of line 185, before it is sent
NoRecordsRequest == [sent |-> FALSE, CacheKeys |-> <<>>, Links |-> <<>>]

\* Walk has not called back yet
NoKey == "none"

\* an Export run.  The walk: ids is what Walk goes through, id the key of the
\* current callback, cacheKey, cacheKeys and links the locals of lines
\* 135-139, todo the results WalkResults has still to hand over, loaded the
\* result Load returned; visited, seenLinks and seenResults are what the
\* store has handed to the callbacks so far.  held: the refs acquired and not
\* released, acquired and released: how many were
IdleExport == [pc |-> "idle", records |-> <<>>, i |-> 0, j |-> 0,
               updatedRecords |-> <<>>, request |-> NoRequest, err |-> Nil,
               ids |-> {}, id |-> NoKey, cacheKey |-> <<>>, cacheKeys |-> <<>>,
               links |-> <<>>, todo |-> <<>>, loaded |-> Nil,
               visited |-> <<>>, seenLinks |-> <<>>, seenResults |-> <<>>,
               req |-> NoRecordsRequest,
               held |-> 0, acquired |-> 0, released |-> 0]

\* ---- the local key store and result store ----
\* the IDs of the cache keys and of the results the solver saves
KeyIDs == {"k1", "k2"}
ResultIDs == {"r1", "r2"}

\* keys: the IDs Walk goes through; backlinks: <<id, linkedID>> for every
\* backlink WalkBacklinks(id) goes through; results: <<id, result>> for every
\* result WalkResults(id) goes through
EmptyStore == [keys |-> {}, backlinks |-> {}, results |-> {}]

\* what one call of Save adds to the local store: the key with its result
\* and a link from each of the keys it depends on

\* m.inner.Save(key, s, createdAt) on the local store: the key, its result,
\* the keys it depends on and the links from them are there afterwards
SaveKey(store, u) ==
    [keys |-> store.keys \cup {u.id} \cup (u.deps \ {u.id}),
     backlinks |-> store.backlinks \cup {<<u.id, d>> : d \in u.deps \ {u.id}},
     results |-> store.results \cup {<<u.id, u.result>>}]

\* the Save of the runs that are not about the key store, and the store
\* after it
OneSave == [id |-> "k1", result |-> "r1", deps |-> {}]
SavedStore == SaveKey(EmptyStore, OneSave)

\* the order in which the store hands over backlinks and results
KeyOrder == <<"k1", "k2">>
ResultOrder == <<"r1", "r2">>

\* what WalkBacklinks(id, fn) hands to fn, and what WalkResults(id, fn) does
BacklinksOf(store, id) == SelectSeq(KeyOrder, LAMBDA d : <<id, d>> \in store.backlinks)
ResultsOf(store, id) == SelectSeq(ResultOrder, LAMBDA r : <<id, r>> \in store.results)

\* ResultStore.Load of a result: an error (the ref is lazy or pruned), a
\* result whose Sys() is a *worker.WorkerRef, or another result
LoadOutcomes == {"load error", "worker ref", "other ref"}

\* the elements of a sequence
Range(seq) == {seq[k] : k \in 1 .. Len(seq)}

\* ---- the Router of package router ----
\* the names and the schemas handed to Add; Merge or compile fails when the
\* schemas it is given include "conflicting"
SchemaNames == {"root", "a", "b"}
Schemas == {"rootSchema", "s1", "s2", "conflicting"}

\* r.schemas[name] of a name that is not in the map
NoSchema == "nil"

\* Merge(newSchemas...) followed by compile: the error, or Nil
MergeError(newSchemas) ==
    IF \E k \in 1 .. Len(newSchemas) : newSchemas[k] = "conflicting"
    THEN "merge error" ELSE Nil

\* the schema compile(Merge(newSchemas...)) yields: what the schemas of the
\* list contribute
Compiled(newSchemas) == {newSchemas[k] : k \in 1 .. Len(newSchemas)}

\* the Router New returns: Add("root", &rootSchema{}) has succeeded
NewRouter ==
    [schemas |-> [n \in SchemaNames |-> IF n = "root" THEN "rootSchema" ELSE NoSchema],
     s |-> {"rootSchema"},
     h |-> {"rootSchema"},
     err |-> Nil,
     got |-> NoSchema,
     served |-> {}]

\* ---- initial state: NewManager has just been called ----
\* a caller of Close: deadline is the ctx it was called with and ctx what is
\* left of it, hook what the hook returned, rerr the named result, ret what
\* Close returned, elapsed the time since the call and hookAt the time from
\* the call to the return of the hook
IdleCloser == [pc |-> "idle", deadline |-> NoTimer, ctx |-> NoTimer,
               hook |-> "not called", rerr |-> Nil, ret |-> "none",
               elapsed |-> 0, hookAt |-> 0]
IdleClient == [pc |-> "idle", op |-> Nil, view |-> NilView]

InitWith(closers, clients) ==
    /\ ServiceURL \in {"", "svc"}
    /\ nm = [pc |-> "start", result |-> "none", err |-> Nil]
    /\ runtimeConfig = ZeroConfig
    /\ inner = NilView
    /\ mu = [writer |-> Nil, readers |-> {}]
    /\ startCloseCh = "open"
    /\ doneCh = "open"
    /\ stopCacheMountSync = Nil
    /\ imp = [p \in Importers |-> IdleImport]
    /\ importLoop = [pc |-> "off", timer |-> NoTimer, ctx |-> NoTimer]
    /\ cancelG = [pc |-> "off", canceled |-> FALSE]
    /\ exportLoop = [pc |-> "off", shutdown |-> FALSE, timer |-> NoTimer, ctx |-> NoTimer]
    /\ ex = IdleExport
    /\ closer = [c \in closers |-> IdleCloser]
    /\ client = [s \in clients |-> IdleClient]
    /\ panicked = FALSE
    /\ hist = [imports |-> 0, exports |-> 0, exportsAfterClose |-> 0,
               finalExports |-> 0, rpc |-> FALSE, put |-> FALSE, syncCalls |-> 0,
               syncErr |-> Nil]
    /\ keyStore = SavedStore
    /\ router = NewRouter

\* ---- NewManager ----
\* NewManager without the test of line 57: the service client is made for
\* an empty ServiceURL as well
NewManagerStartNoDefault ==
    /\ ~panicked
    /\ nm.pc = "start"
    /\ \/ /\ nm' = [pc |-> "done", result |-> "error", err |-> "newClient error"]
          /\ hist' = hist
       \/ /\ nm' = [nm EXCEPT !.pc = "GetConfig"]
          /\ hist' = [hist EXCEPT !.rpc = TRUE]
    /\ UNCHANGED <<router, keyStore, ServiceURL, runtimeConfig, inner, mu, startCloseCh, doneCh,
                   stopCacheMountSync, imp, importLoop, cancelG, exportLoop, ex,
                   closer, client, panicked>>

\* lines 48-70: the degenerate manager, or newClient and the GetConfig call
NewManagerStart ==
    /\ ~panicked
    /\ nm.pc = "start"
    /\ \/ /\ ServiceURL = ""
          /\ nm' = [pc |-> "done", result |-> "default", err |-> Nil]
          /\ hist' = hist
       \/ /\ ServiceURL # ""
          /\ \/ /\ nm' = [pc |-> "done", result |-> "error", err |-> "newClient error"]
                /\ hist' = hist
             \/ /\ nm' = [nm EXCEPT !.pc = "GetConfig"]
                /\ hist' = [hist EXCEPT !.rpc = TRUE]
    /\ UNCHANGED <<router, keyStore, ServiceURL, runtimeConfig, inner, mu, startCloseCh, doneCh,
                   stopCacheMountSync, imp, importLoop, cancelG, exportLoop, ex,
                   closer, client, panicked>>

\* lines 72-85: GetConfig returns, the check of the config, the call of the
\* initial Import
NewManagerGetConfig(Configs) ==
    /\ ~panicked
    /\ nm.pc = "GetConfig"
    /\ \/ /\ nm' = [pc |-> "done", result |-> "error", err |-> "GetConfig error"]
          /\ UNCHANGED <<runtimeConfig, imp, hist>>
       \/ \E config \in Configs :
            IF ConfigRejected(config)
            THEN /\ nm' = [pc |-> "done", result |-> "error", err |-> "invalid cache config"]
                 /\ UNCHANGED <<runtimeConfig, imp, hist>>
            ELSE /\ runtimeConfig' = config
                 /\ nm' = [nm EXCEPT !.pc = "Import"]
                 /\ imp' = [imp EXCEPT !["main"].pc = "ImportCache"]
                 /\ hist' = [hist EXCEPT !.imports = @ + 1]
    /\ UNCHANGED <<router, keyStore, ServiceURL, inner, mu, startCloseCh, doneCh, stopCacheMountSync,
                   importLoop, cancelG, exportLoop, ex, closer, client, panicked>>

\* the error of the initial Import is logged and NewManager goes on (the
\* TODO of line 84)
NewManagerLaunchNonFatal ==
    /\ ~panicked
    /\ nm.pc = "Import"
    /\ imp["main"].pc = "returned"
    /\ nm' = [pc |-> "done", result |-> "manager", err |-> Nil]
    /\ cancelG' = [cancelG EXCEPT !.pc = "wait"]
    /\ importLoop' = [importLoop EXCEPT !.pc = "select",
                                        !.timer = After(runtimeConfig.ImportPeriod)]
    /\ exportLoop' = [exportLoop EXCEPT !.pc = "select",
                                        !.timer = After(runtimeConfig.ExportPeriod)]
    /\ UNCHANGED <<router, keyStore, ServiceURL, runtimeConfig, inner, mu, startCloseCh, doneCh,
                   stopCacheMountSync, imp, ex, closer, client, panicked, hist>>

\* lines 85-131: the initial Import has returned; on an error NewManager
\* returns it, otherwise it starts the three goroutines and returns m
NewManagerLaunch ==
    /\ ~panicked
    /\ nm.pc = "Import"
    /\ imp["main"].pc = "returned"
    /\ IF imp["main"].err # Nil
       THEN /\ nm' = [pc |-> "done", result |-> "error", err |-> imp["main"].err]
            /\ UNCHANGED <<importLoop, cancelG, exportLoop>>
       ELSE /\ nm' = [pc |-> "done", result |-> "manager", err |-> Nil]
            /\ cancelG' = [cancelG EXCEPT !.pc = "wait"]
            /\ importLoop' = [importLoop EXCEPT !.pc = "select",
                                                !.timer = After(runtimeConfig.ImportPeriod)]
            /\ exportLoop' = [exportLoop EXCEPT !.pc = "select",
                                                !.timer = After(runtimeConfig.ExportPeriod)]
    /\ UNCHANGED <<router, keyStore, ServiceURL, runtimeConfig, inner, mu, startCloseCh, doneCh,
                   stopCacheMountSync, imp, ex, closer, client, panicked, hist>>

\* ---- Import ----
\* Import goes on to the lock and the assignment of line 307 with what it
\* has when building the new view failed
ImportCacheReturnNoCheck(p) ==
    /\ ~panicked
    /\ imp[p].pc = "ImportCache"
    /\ \/ imp' = [imp EXCEPT ![p] = [pc |-> "returned", newInner |-> NilView,
                                     err |-> "ImportCache error"]]
       \/ \E layers \in ImportLayerLists, lib \in LibraryOutcomes :
            LET built == ImportBuild(hist.imports, layers, lib)
            IN  imp' = [imp EXCEPT ![p] =
                          [pc |-> "Lock", newInner |-> built.newInner, err |-> built.err]]
    /\ UNCHANGED <<router, keyStore, ServiceURL, nm, runtimeConfig, inner, mu, startCloseCh, doneCh,
                   stopCacheMountSync, importLoop, cancelG, exportLoop, ex,
                   closer, client, panicked, hist>>

\* lines 279-303: ImportCache returns; the descriptor providers, the chain,
\* the key storage and the new combined view are built
ImportCacheReturn(p) ==
    /\ ~panicked
    /\ imp[p].pc = "ImportCache"
    /\ \/ imp' = [imp EXCEPT ![p] = [pc |-> "returned", newInner |-> NilView,
                                     err |-> "ImportCache error"]]
       \/ \E layers \in ImportLayerLists, lib \in LibraryOutcomes :
            LET built == ImportBuild(hist.imports, layers, lib)
            IN  imp' = [imp EXCEPT ![p] =
                          [pc |-> IF built.err = Nil THEN "Lock" ELSE "returned",
                           newInner |-> built.newInner, err |-> built.err]]
    /\ UNCHANGED <<router, keyStore, ServiceURL, nm, runtimeConfig, inner, mu, startCloseCh, doneCh,
                   stopCacheMountSync, importLoop, cancelG, exportLoop, ex,
                   closer, client, panicked, hist>>

\* Import goes on to line 307 without taking the lock
ImportLockSkipped(p) ==
    /\ ~panicked
    /\ imp[p].pc = "Lock"
    /\ imp' = [imp EXCEPT ![p].pc = "locked"]
    /\ UNCHANGED <<router, keyStore, ServiceURL, nm, runtimeConfig, inner, mu, startCloseCh, doneCh,
                   stopCacheMountSync, importLoop, cancelG, exportLoop, ex,
                   closer, client, panicked, hist>>

\* line 305: m.mu.Lock()
ImportLock(p) ==
    /\ ~panicked
    /\ imp[p].pc = "Lock"
    /\ CanLock
    /\ mu' = [mu EXCEPT !.writer = p]
    /\ imp' = [imp EXCEPT ![p].pc = "locked"]
    /\ UNCHANGED <<router, keyStore, ServiceURL, nm, runtimeConfig, inner, startCloseCh, doneCh,
                   stopCacheMountSync, importLoop, cancelG, exportLoop, ex,
                   closer, client, panicked, hist>>

\* line 307: m.inner = newInner
ImportSwap(p) ==
    /\ ~panicked
    /\ imp[p].pc = "locked"
    /\ inner' = imp[p].newInner
    /\ imp' = [imp EXCEPT ![p].pc = "Unlock"]
    /\ UNCHANGED <<router, keyStore, ServiceURL, nm, runtimeConfig, mu, startCloseCh, doneCh,
                   stopCacheMountSync, importLoop, cancelG, exportLoop, ex,
                   closer, client, panicked, hist>>

\* lines 306, 308: return nil and the deferred m.mu.Unlock()
ImportUnlock(p) ==
    /\ ~panicked
    /\ imp[p].pc = "Unlock"
    /\ mu' = [mu EXCEPT !.writer = IF @ = p THEN Nil ELSE @]
    /\ imp' = [imp EXCEPT ![p].pc = "returned"]
    /\ UNCHANGED <<router, keyStore, ServiceURL, nm, runtimeConfig, inner, startCloseCh, doneCh,
                   stopCacheMountSync, importLoop, cancelG, exportLoop, ex,
                   closer, client, panicked, hist>>

\* ---- the Import loop and the goroutine that cancels importParentCtx ----
\* lines 90-93: <-m.startCloseCh; cancelImport()
CancelImport ==
    /\ ~panicked
    /\ cancelG.pc = "wait"
    /\ startCloseCh = "closed"
    /\ cancelG' = [pc |-> "done", canceled |-> TRUE]
    /\ importLoop' = [importLoop EXCEPT !.ctx = IF @ = NoTimer THEN NoTimer ELSE 0]
    /\ UNCHANGED <<router, keyStore, ServiceURL, nm, runtimeConfig, inner, mu, startCloseCh, doneCh,
                   stopCacheMountSync, imp, exportLoop, ex, closer, client,
                   panicked, hist>>

\* line 97: the select takes the timer
ImportLoopSelectTimer ==
    /\ ~panicked
    /\ importLoop.pc = "select"
    /\ importLoop.timer = 0
    /\ hist.imports < MaxImports
    /\ importLoop' = [importLoop EXCEPT !.pc = "woken", !.timer = NoTimer]
    /\ UNCHANGED <<router, keyStore, ServiceURL, nm, runtimeConfig, inner, mu, startCloseCh, doneCh,
                   stopCacheMountSync, imp, cancelG, exportLoop, ex, closer,
                   client, panicked, hist>>

\* the case of startCloseCh runs one last Import, as the Export loop runs a
\* last Export
ImportLoopSelectCloseFinalImport ==
    /\ ~panicked
    /\ importLoop.pc = "select"
    /\ startCloseCh = "closed"
    /\ hist.imports < MaxImports
    /\ importLoop' = [importLoop EXCEPT !.pc = "woken", !.timer = NoTimer]
    /\ UNCHANGED <<router, keyStore, ServiceURL, nm, runtimeConfig, inner, mu, startCloseCh, doneCh,
                   stopCacheMountSync, imp, cancelG, exportLoop, ex, closer,
                   client, panicked, hist>>

\* lines 98-99: the select takes startCloseCh and the goroutine returns
ImportLoopSelectClose ==
    /\ ~panicked
    /\ importLoop.pc = "select"
    /\ startCloseCh = "closed"
    /\ importLoop' = [importLoop EXCEPT !.pc = "exited", !.timer = NoTimer]
    /\ UNCHANGED <<router, keyStore, ServiceURL, nm, runtimeConfig, inner, mu, startCloseCh, doneCh,
                   stopCacheMountSync, imp, cancelG, exportLoop, ex, closer,
                   client, panicked, hist>>

\* the loop starts Import in a goroutine of its own and goes back to its
\* select without waiting for it
ImportLoopCallAsync ==
    /\ ~panicked
    /\ importLoop.pc = "woken"
    /\ importLoop' = [importLoop EXCEPT !.pc = "select",
                         !.timer = After(runtimeConfig.ImportPeriod),
                         !.ctx = IF cancelG.canceled THEN 0 ELSE After(ImportTimeout)]
    /\ imp' = [imp EXCEPT !["loop"].pc = "ImportCache"]
    /\ hist' = [hist EXCEPT !.imports = @ + 1]
    /\ UNCHANGED <<router, keyStore, ServiceURL, nm, runtimeConfig, inner, mu, startCloseCh, doneCh,
                   stopCacheMountSync, cancelG, exportLoop, ex, closer, client,
                   panicked>>

\* lines 101-102: the context of this run and the call of Import
ImportLoopCall ==
    /\ ~panicked
    /\ importLoop.pc = "woken"
    /\ importLoop' = [importLoop EXCEPT !.pc = "Import",
                         !.ctx = IF cancelG.canceled THEN 0 ELSE After(ImportTimeout)]
    /\ imp' = [imp EXCEPT !["loop"].pc = "ImportCache"]
    /\ hist' = [hist EXCEPT !.imports = @ + 1]
    /\ UNCHANGED <<router, keyStore, ServiceURL, nm, runtimeConfig, inner, mu, startCloseCh, doneCh,
                   stopCacheMountSync, cancelG, exportLoop, ex, closer, client,
                   panicked>>

\* lines 102-106: Import has returned, its error is logged, the next round
ImportLoopReturn ==
    /\ ~panicked
    /\ importLoop.pc = "Import"
    /\ imp["loop"].pc = "returned"
    /\ imp' = [imp EXCEPT !["loop"] = IdleImport]
    /\ importLoop' = [pc |-> "select", timer |-> After(runtimeConfig.ImportPeriod),
                      ctx |-> NoTimer]
    /\ UNCHANGED <<router, keyStore, ServiceURL, nm, runtimeConfig, inner, mu, startCloseCh, doneCh,
                   stopCacheMountSync, cancelG, exportLoop, ex, closer, client,
                   panicked, hist>>

\* ---- the Export loop ----
\* line 115: the select takes the timer
ExportLoopSelectTimer ==
    /\ ~panicked
    /\ exportLoop.pc = "select"
    /\ exportLoop.timer = 0
    /\ hist.exports < MaxExports
    /\ exportLoop' = [exportLoop EXCEPT !.pc = "woken", !.timer = NoTimer]
    /\ UNCHANGED <<router, keyStore, ServiceURL, nm, runtimeConfig, inner, mu, startCloseCh, doneCh,
                   stopCacheMountSync, imp, importLoop, cancelG, ex, closer,
                   client, panicked, hist>>

\* the case of startCloseCh returns at once, as the Import loop does: no
\* final Export
ExportLoopSelectCloseReturns ==
    /\ ~panicked
    /\ exportLoop.pc = "select"
    /\ startCloseCh = "closed"
    /\ exportLoop' = [exportLoop EXCEPT !.pc = "exited", !.timer = NoTimer,
                                        !.shutdown = TRUE]
    /\ doneCh' = "closed"
    /\ UNCHANGED <<router, keyStore, ServiceURL, nm, runtimeConfig, inner, mu, startCloseCh,
                   stopCacheMountSync, imp, importLoop, cancelG, ex, closer,
                   client, panicked, hist>>

\* the case of startCloseCh closes m.doneCh before the final Export instead
\* of after it
ExportLoopSelectCloseDoneFirst ==
    /\ ~panicked
    /\ exportLoop.pc = "select"
    /\ startCloseCh = "closed"
    /\ exportLoop' = [exportLoop EXCEPT !.pc = "woken", !.timer = NoTimer,
                                        !.shutdown = TRUE]
    /\ doneCh' = "closed"
    /\ UNCHANGED <<router, keyStore, ServiceURL, nm, runtimeConfig, inner, mu, startCloseCh,
                   stopCacheMountSync, imp, importLoop, cancelG, ex, closer,
                   client, panicked, hist>>

\* lines 116-117: the select takes startCloseCh
ExportLoopSelectClose ==
    /\ ~panicked
    /\ exportLoop.pc = "select"
    /\ startCloseCh = "closed"
    /\ exportLoop' = [exportLoop EXCEPT !.pc = "woken", !.timer = NoTimer,
                                        !.shutdown = TRUE]
    /\ UNCHANGED <<router, keyStore, ServiceURL, nm, runtimeConfig, inner, mu, startCloseCh, doneCh,
                   stopCacheMountSync, imp, importLoop, cancelG, ex, closer,
                   client, panicked, hist>>

\* lines 120-122: the context of this run and the call of Export
ExportLoopCall ==
    /\ ~panicked
    /\ exportLoop.pc = "woken"
    /\ exportLoop' = [exportLoop EXCEPT !.pc = "Export",
                                        !.ctx = After(runtimeConfig.ExportTimeout)]
    /\ ex' = [IdleExport EXCEPT !.pc = "Walk"]
    /\ hist' = [hist EXCEPT
                  !.exports = @ + 1,
                  !.exportsAfterClose = IF startCloseCh = "closed" THEN @ + 1 ELSE @,
                  !.finalExports = IF exportLoop.shutdown THEN @ + 1 ELSE @]
    /\ UNCHANGED <<router, keyStore, ServiceURL, nm, runtimeConfig, inner, mu, startCloseCh, doneCh,
                   stopCacheMountSync, imp, importLoop, cancelG, closer, client,
                   panicked>>

\* what the goroutine does when Export has returned (lines 122-127 and the
\* deferred close of line 111): "exit" or "loop"
AfterExport(shutdown) == IF shutdown THEN "exit" ELSE "loop"

\* lines 122-128, 111: Export has returned, its error is logged; on shutdown
\* the goroutine returns and the deferred close(m.doneCh) runs
ExportLoopReturn ==
    /\ ~panicked
    /\ exportLoop.pc = "Export"
    /\ ex.pc = "returned"
    /\ ex' = IdleExport
    /\ IF AfterExport(exportLoop.shutdown) = "exit"
       THEN /\ exportLoop' = [exportLoop EXCEPT !.pc = "exited", !.ctx = NoTimer]
            /\ IF CloseChan(doneCh) = "panic"
               THEN panicked' = TRUE /\ doneCh' = doneCh
               ELSE panicked' = panicked /\ doneCh' = CloseChan(doneCh)
       ELSE /\ exportLoop' = [exportLoop EXCEPT !.pc = "select", !.ctx = NoTimer,
                                 !.timer = After(runtimeConfig.ExportPeriod)]
            /\ UNCHANGED <<doneCh, panicked>>
    /\ UNCHANGED <<router, keyStore, ServiceURL, nm, runtimeConfig, inner, mu, startCloseCh,
                   stopCacheMountSync, imp, importLoop, cancelG, closer, client,
                   hist>>

\* ---- Export ----
\* Export returns err
Fail(e, err) == [e EXCEPT !.pc = "returned", !.err = err]

\* the per-record closure returned nil: the next record, or after the last
\* one the UpdateCacheLayers call of line 238
NextRecord(e) ==
    IF e.i < Len(e.records)
    THEN [e EXCEPT !.pc = "record", !.i = @ + 1, !.j = 0]
    ELSE [e EXCEPT !.pc = "UpdateCacheLayers", !.j = 0,
                   !.request = [sent |-> TRUE, UpdatedRecords |-> e.updatedRecords]]

\* lines 228-232: every layer of the record is pushed
RecordPushed(e) ==
    NextRecord([e EXCEPT !.updatedRecords =
                           Append(@, RecordLayers(e.i, e.records[e.i]))])

\* a ref is acquired: ResultStore.Load or CacheManager().Get has returned it
Acquire(e) == [e EXCEPT !.held = @ + 1, !.acquired = @ + 1]

\* the deferred Release of lines 160 and 207 runs: the closure returns
Release(e) == [e EXCEPT !.held = @ - 1, !.released = @ + 1]

\* lines 138-188: the walk of the key store, then the UpdateCacheRecords
\* call, in one step (for the runs that are not about the key store)
ExportWalk ==
    /\ ~panicked
    /\ ex.pc = "Walk"
    /\ \/ /\ ex' = Fail(ex, "Walk error")
          /\ hist' = hist
       \/ /\ ex' = [ex EXCEPT !.pc = "UpdateCacheRecords"]
          /\ hist' = [hist EXCEPT !.rpc = TRUE]
    /\ UNCHANGED <<router, keyStore, ServiceURL, nm, runtimeConfig, inner, mu, startCloseCh, doneCh,
                   stopCacheMountSync, imp, importLoop, cancelG, exportLoop,
                   closer, client, panicked>>

\* line 138: m.KeyStore.Walk is called; it goes through the IDs the store
\* has at this moment
ExportWalkIDs ==
    /\ ~panicked
    /\ ex.pc = "Walk"
    /\ \/ ex' = Fail(ex, "Walk error")
       \/ ex' = [ex EXCEPT !.pc = "WalkNext", !.ids = keyStore.keys]
    /\ UNCHANGED <<router, keyStore, ServiceURL, nm, runtimeConfig, inner, mu,
                   startCloseCh, doneCh, stopCacheMountSync, imp, importLoop,
                   cancelG, exportLoop, closer, client, panicked, hist>>

\* lines 138-139, 179-188: Walk calls back with the next ID (a key saved
\* since Walk was called may be among them or not), or it returns and
\* UpdateCacheRecords is called with cacheKeys and links
ExportWalkNext ==
    /\ ~panicked
    /\ ex.pc = "WalkNext"
    /\ \/ /\ \E id \in (ex.ids \cup keyStore.keys) \ Range(ex.visited) :
               ex' = [ex EXCEPT !.pc = "WalkBacklinks", !.id = id,
                                !.cacheKey = [ID |-> id, Results |-> <<>>],
                                !.visited = Append(@, id)]
          /\ hist' = hist
       \/ /\ ex.ids \subseteq Range(ex.visited)
          /\ ex' = [ex EXCEPT !.pc = "UpdateCacheRecords", !.id = NoKey,
                              !.req = [sent |-> TRUE, CacheKeys |-> ex.cacheKeys,
                                       Links |-> ex.links]]
          /\ hist' = [hist EXCEPT !.rpc = TRUE]
    /\ UNCHANGED <<router, keyStore, ServiceURL, nm, runtimeConfig, inner, mu,
                   startCloseCh, doneCh, stopCacheMountSync, imp, importLoop,
                   cancelG, exportLoop, closer, client, panicked>>

\* the Link of lines 141-147
Link(id, linkedID) == [ID |-> id, LinkedID |-> linkedID]

\* lines 140-154: WalkBacklinks hands over the backlinks of the key, a Link
\* is appended for each; then WalkResults is called
ExportWalkBacklinks ==
    /\ ~panicked
    /\ ex.pc = "WalkBacklinks"
    /\ \/ ex' = Fail(ex, "WalkBacklinks error")
       \/ LET linked == BacklinksOf(keyStore, ex.id)
          IN  ex' = [ex EXCEPT
                       !.pc = "WalkResults",
                       !.links = @ \o [k \in 1 .. Len(linked) |-> Link(ex.id, linked[k])],
                       !.seenLinks = @ \o [k \in 1 .. Len(linked) |-> <<ex.id, linked[k]>>],
                       !.todo = ResultsOf(keyStore, ex.id)]
    /\ UNCHANGED <<router, keyStore, ServiceURL, nm, runtimeConfig, inner, mu,
                   startCloseCh, doneCh, stopCacheMountSync, imp, importLoop,
                   cancelG, exportLoop, closer, client, panicked, hist>>

\* lines 154-160: WalkResults hands over the next result and
\* m.ResultStore.Load is called; a result that does not load is skipped
ExportWalkLoad ==
    /\ ~panicked
    /\ ex.pc = "WalkResults"
    /\ ex.todo # <<>>
    /\ \E o \in LoadOutcomes :
         LET seen == [ex EXCEPT !.seenResults = Append(@, <<ex.id, Head(ex.todo), o>>)]
         IN  ex' = IF o = "load error"
                   THEN [seen EXCEPT !.todo = Tail(@)]
                   ELSE [Acquire(seen) EXCEPT !.pc = "loaded", !.loaded = o]
    /\ UNCHANGED <<router, keyStore, ServiceURL, nm, runtimeConfig, inner, mu,
                   startCloseCh, doneCh, stopCacheMountSync, imp, importLoop,
                   cancelG, exportLoop, closer, client, panicked, hist>>

\* the Result of lines 167-171
Result(id, result) == [ID |-> <<id, result>>]

\* the closure of WalkResults returns nil without releasing a result that is
\* not a worker ref
ExportWalkResultNoRelease ==
    /\ ~panicked
    /\ ex.pc = "loaded"
    /\ ex' = IF ex.loaded = "worker ref"
             THEN [Release(ex) EXCEPT
                     !.pc = "WalkResults", !.loaded = Nil, !.todo = Tail(@),
                     !.cacheKey.Results = Append(@, Result(ex.id, Head(ex.todo)))]
             ELSE [ex EXCEPT !.pc = "WalkResults", !.loaded = Nil, !.todo = Tail(@)]
    /\ UNCHANGED <<router, keyStore, ServiceURL, nm, runtimeConfig, inner, mu,
                   startCloseCh, doneCh, stopCacheMountSync, imp, importLoop,
                   cancelG, exportLoop, closer, client, panicked, hist>>

\* lines 160-173: the result is appended to cacheKey.Results when it is a
\* worker ref; the closure returns and the deferred res.Release runs
ExportWalkResult ==
    /\ ~panicked
    /\ ex.pc = "loaded"
    /\ ex' = [Release(ex) EXCEPT
                !.pc = "WalkResults", !.loaded = Nil, !.todo = Tail(@),
                !.cacheKey.Results = IF ex.loaded = "worker ref"
                                     THEN Append(@, Result(ex.id, Head(ex.todo)))
                                     ELSE @]
    /\ UNCHANGED <<router, keyStore, ServiceURL, nm, runtimeConfig, inner, mu,
                   startCloseCh, doneCh, stopCacheMountSync, imp, importLoop,
                   cancelG, exportLoop, closer, client, panicked, hist>>

\* a key without results is not sent
ExportWalkKeyDoneNonEmpty ==
    /\ ~panicked
    /\ ex.pc = "WalkResults"
    /\ ex.todo = <<>>
    /\ \/ ex' = Fail(ex, "WalkResults error")
       \/ ex' = [ex EXCEPT !.pc = "WalkNext",
                           !.cacheKeys = IF ex.cacheKey.Results = <<>> THEN @
                                         ELSE Append(@, ex.cacheKey)]
    /\ UNCHANGED <<router, keyStore, ServiceURL, nm, runtimeConfig, inner, mu,
                   startCloseCh, doneCh, stopCacheMountSync, imp, importLoop,
                   cancelG, exportLoop, closer, client, panicked, hist>>

\* lines 174-180: WalkResults returns; the key is appended to cacheKeys and
\* the callback of Walk returns
ExportWalkKeyDone ==
    /\ ~panicked
    /\ ex.pc = "WalkResults"
    /\ ex.todo = <<>>
    /\ \/ ex' = Fail(ex, "WalkResults error")
       \/ ex' = [ex EXCEPT !.pc = "WalkNext", !.cacheKeys = Append(@, ex.cacheKey)]
    /\ UNCHANGED <<router, keyStore, ServiceURL, nm, runtimeConfig, inner, mu,
                   startCloseCh, doneCh, stopCacheMountSync, imp, importLoop,
                   cancelG, exportLoop, closer, client, panicked, hist>>

\* lines 185-197: UpdateCacheRecords returns
ExportAnnounce(Responses) ==
    /\ ~panicked
    /\ ex.pc = "UpdateCacheRecords"
    /\ \/ ex' = Fail(ex, "UpdateCacheRecords error")
       \/ \E recordsToExport \in Responses :
            IF Len(recordsToExport) = 0
            THEN ex' = [ex EXCEPT !.pc = "returned"]
            ELSE ex' = [ex EXCEPT !.pc = "record", !.records = recordsToExport,
                                  !.i = 1]
    /\ UNCHANGED <<router, keyStore, ServiceURL, nm, runtimeConfig, inner, mu, startCloseCh, doneCh,
                   stopCacheMountSync, imp, importLoop, cancelG, exportLoop,
                   closer, client, panicked, hist>>

\* a ref that CacheManager().Get does not find is an error of the record
ExportGetRefStrict ==
    /\ ~panicked
    /\ ex.pc = "record"
    /\ LET record == ex.records[ex.i]
       IN  ex' = IF record.ref # "found" THEN Fail(ex, "Get error")
                 ELSE IF record.remotesErr
                      THEN Fail(Release(Acquire(ex)), "GetRemotes error")
                 ELSE IF record.remotes = 0 THEN NextRecord(Release(Acquire(ex)))
                 ELSE IF Len(record.layers) = 0 THEN RecordPushed(Release(Acquire(ex)))
                 ELSE [Acquire(ex) EXCEPT !.pc = "pushLayer", !.j = 1]
    /\ UNCHANGED <<router, keyStore, ServiceURL, nm, runtimeConfig, inner, mu, startCloseCh, doneCh,
                   stopCacheMountSync, imp, importLoop, cancelG, exportLoop,
                   closer, client, panicked, hist>>

\* lines 200-223, 228-232: the ref and the remotes of the current record
ExportGetRef ==
    /\ ~panicked
    /\ ex.pc = "record"
    /\ LET record == ex.records[ex.i]
       IN  ex' = IF record.ref # "found" THEN NextRecord(ex)
                 ELSE IF record.remotesErr
                      THEN Fail(Release(Acquire(ex)), "GetRemotes error")
                 ELSE IF record.remotes = 0 THEN NextRecord(Release(Acquire(ex)))
                 ELSE IF Len(record.layers) = 0 THEN RecordPushed(Release(Acquire(ex)))
                 ELSE [Acquire(ex) EXCEPT !.pc = "pushLayer", !.j = 1]
    /\ UNCHANGED <<router, keyStore, ServiceURL, nm, runtimeConfig, inner, mu, startCloseCh, doneCh,
                   stopCacheMountSync, imp, importLoop, cancelG, exportLoop,
                   closer, client, panicked, hist>>

\* an error of pushLayer before the PUT ends the record, not the Export: the
\* loop of line 198 goes on with the next record
ExportPushLayerSkipsRecord ==
    /\ ~panicked
    /\ ex.pc = "pushLayer"
    /\ IF ex.records[ex.i].layers[ex.j] = "prepare error"
       THEN ex' = NextRecord(Release(ex)) /\ hist' = hist
       ELSE ex' = [ex EXCEPT !.pc = "PUT"] /\ hist' = [hist EXCEPT !.put = TRUE]
    /\ UNCHANGED <<router, keyStore, ServiceURL, nm, runtimeConfig, inner, mu, startCloseCh, doneCh,
                   stopCacheMountSync, imp, importLoop, cancelG, exportLoop,
                   closer, client, panicked>>

\* pushLayer, lines 248-267: the upload URL, the reader, the request; then
\* httpClient.Do sends the PUT
ExportPushLayer ==
    /\ ~panicked
    /\ ex.pc = "pushLayer"
    /\ IF ex.records[ex.i].layers[ex.j] = "prepare error"
       THEN ex' = Fail(Release(ex), "pushLayer error") /\ hist' = hist
       ELSE ex' = [ex EXCEPT !.pc = "PUT"] /\ hist' = [hist EXCEPT !.put = TRUE]
    /\ UNCHANGED <<router, keyStore, ServiceURL, nm, runtimeConfig, inner, mu, startCloseCh, doneCh,
                   stopCacheMountSync, imp, importLoop, cancelG, exportLoop,
                   closer, client, panicked>>

\* pushLayer without the test of the status code of line 272
ExportPutReturnAnyStatus ==
    /\ ~panicked
    /\ ex.pc = "PUT"
    /\ LET record == ex.records[ex.i]
       IN  ex' = IF record.layers[ex.j] = "http error"
                 THEN Fail(Release(ex), "http error")
                 ELSE IF ex.j < Len(record.layers)
                      THEN [ex EXCEPT !.pc = "pushLayer", !.j = @ + 1]
                      ELSE RecordPushed(Release(ex))
    /\ UNCHANGED <<router, keyStore, ServiceURL, nm, runtimeConfig, inner, mu, startCloseCh, doneCh,
                   stopCacheMountSync, imp, importLoop, cancelG, exportLoop,
                   closer, client, panicked, hist>>

\* pushLayer, lines 267-275, and lines 223-232: the PUT returns
ExportPutReturn ==
    /\ ~panicked
    /\ ex.pc = "PUT"
    /\ LET record == ex.records[ex.i]
       IN  ex' = IF record.layers[ex.j] = "http error"
                 THEN Fail(Release(ex), "http error")
                 ELSE IF record.layers[ex.j] # "ok"
                 THEN Fail(Release(ex), "unexpected status code")
                 ELSE IF ex.j < Len(record.layers)
                      THEN [ex EXCEPT !.pc = "pushLayer", !.j = @ + 1]
                      ELSE RecordPushed(Release(ex))
    /\ UNCHANGED <<router, keyStore, ServiceURL, nm, runtimeConfig, inner, mu, startCloseCh, doneCh,
                   stopCacheMountSync, imp, importLoop, cancelG, exportLoop,
                   closer, client, panicked, hist>>

\* lines 238-244: UpdateCacheLayers returns
ExportCommitReturn ==
    /\ ~panicked
    /\ ex.pc = "UpdateCacheLayers"
    /\ \/ ex' = Fail(ex, "UpdateCacheLayers error")
       \/ ex' = [ex EXCEPT !.pc = "returned"]
    /\ UNCHANGED <<router, keyStore, ServiceURL, nm, runtimeConfig, inner, mu, startCloseCh, doneCh,
                   stopCacheMountSync, imp, importLoop, cancelG, exportLoop,
                   closer, client, panicked, hist>>

\* ---- Close and StartCacheMountSynchronization ----
\* the ctx a caller hands to Close: without deadline, or done after d units
CtxDeadlines == {NoTimer} \cup (0 .. MaxDeadline)

\* the hook of m.stopCacheMountSync returns nil or an error
HookResults == {Nil, "hook error"}

\* the manager's StartCacheMountSynchronization installs m.stopCacheMountSync
StartCacheMountSynchronization ==
    /\ ~panicked
    /\ nm.result = "manager"
    /\ stopCacheMountSync = Nil
    /\ startCloseCh = "open"
    /\ stopCacheMountSync' = "installed"
    /\ UNCHANGED <<router, keyStore, ServiceURL, nm, runtimeConfig, inner, mu, startCloseCh, doneCh,
                   imp, importLoop, cancelG, exportLoop, ex, closer, client,
                   panicked, hist>>

\* where Close is after line 313-316: in the hook, or at the select
AfterStartClose(hook) == IF hook # Nil THEN "hook" ELSE "select"

\* lines 313-316: close(m.startCloseCh), then the hook is called if there is one
Close(c, Deadlines) ==
    /\ ~panicked
    /\ nm.result = "manager"
    /\ closer[c].pc = "idle"
    /\ \E d \in Deadlines :
         IF CloseChan(startCloseCh) = "panic"
         THEN /\ panicked' = TRUE
              /\ closer' = [closer EXCEPT ![c].pc = "panicked", ![c].ctx = d,
                                          ![c].deadline = d]
              /\ startCloseCh' = startCloseCh
         ELSE /\ panicked' = panicked
              /\ startCloseCh' = CloseChan(startCloseCh)
              /\ closer' = [closer EXCEPT ![c].pc = AfterStartClose(stopCacheMountSync),
                                          ![c].ctx = d, ![c].deadline = d]
    /\ UNCHANGED <<router, keyStore, ServiceURL, nm, runtimeConfig, inner, mu, doneCh,
                   stopCacheMountSync, imp, importLoop, cancelG, exportLoop, ex,
                   client, hist>>

\* line 315: the hook returns
CloseHookReturn(c) ==
    /\ ~panicked
    /\ closer[c].pc = "hook"
    /\ \E e \in HookResults :
         closer' = [closer EXCEPT ![c].pc = "select", ![c].hook = e, ![c].rerr = e,
                                  ![c].hookAt = closer[c].elapsed]
    /\ UNCHANGED <<router, keyStore, ServiceURL, nm, runtimeConfig, inner, mu, startCloseCh, doneCh,
                   stopCacheMountSync, imp, importLoop, cancelG, exportLoop, ex,
                   client, panicked, hist>>

\* the select of Close waits for m.doneCh only
CloseSelectReadyDoneOnly(done, ctx) == done = "closed"

\* the select of lines 317-320 has a case that is ready
CloseSelectReady(done, ctx) == done = "closed" \/ ctx = 0

\* Close returns the error of ctx when the hook returned none and ctx is done
CloseResultCtxErr(rerr, ctx) ==
    IF rerr = Nil /\ ctx = 0 THEN "context canceled" ELSE rerr

\* line 321: what Close returns
CloseResult(rerr, ctx) == rerr

\* lines 317-321: the select and the return
CloseSelect(c) ==
    /\ ~panicked
    /\ closer[c].pc = "select"
    /\ CloseSelectReady(doneCh, closer[c].ctx)
    /\ closer' = [closer EXCEPT ![c].pc = "returned",
                                ![c].ret = CloseResult(closer[c].rerr, closer[c].ctx)]
    /\ UNCHANGED <<router, keyStore, ServiceURL, nm, runtimeConfig, inner, mu, startCloseCh, doneCh,
                   stopCacheMountSync, imp, importLoop, cancelG, exportLoop, ex,
                   client, panicked, hist>>

\* lines 397-399: Close of the degenerate manager
DefaultClose(c) ==
    /\ ~panicked
    /\ nm.result = "default"
    /\ closer[c].pc = "idle"
    /\ closer' = [closer EXCEPT ![c].pc = "returned", ![c].ret = Nil]
    /\ UNCHANGED <<router, keyStore, ServiceURL, nm, runtimeConfig, inner, mu, startCloseCh, doneCh,
                   stopCacheMountSync, imp, importLoop, cancelG, exportLoop, ex,
                   client, panicked, hist>>

\* lines 393-395: StartCacheMountSynchronization of the degenerate manager
DefaultStartCacheMountSynchronization ==
    /\ ~panicked
    /\ nm.result = "default"
    /\ hist.syncCalls < MaxSyncCalls
    /\ hist' = [hist EXCEPT !.syncCalls = @ + 1, !.syncErr = Nil]
    /\ UNCHANGED <<router, keyStore, ServiceURL, nm, runtimeConfig, inner, mu, startCloseCh, doneCh,
                   stopCacheMountSync, imp, importLoop, cancelG, exportLoop, ex,
                   closer, client, panicked>>

\* ---- Query, Records, Load, Save ----
ReadOps == {"Query", "Records", "Load"}
Ops == ReadOps \cup {"Save"}

\* lines 329, 335, 341, 347: RLock for the readers, Lock for Save
ClientLock(s) ==
    /\ ~panicked
    /\ nm.result = "manager"
    /\ client[s].pc = "idle"
    /\ \E op \in Ops :
         /\ client' = [client EXCEPT ![s].pc = "locked", ![s].op = op]
         /\ IF op \in ReadOps
            THEN CanRLock /\ mu' = [mu EXCEPT !.readers = @ \cup {s}]
            ELSE CanLock /\ mu' = [mu EXCEPT !.writer = s]
    /\ UNCHANGED <<router, keyStore, ServiceURL, nm, runtimeConfig, inner, startCloseCh, doneCh,
                   stopCacheMountSync, imp, importLoop, cancelG, exportLoop, ex,
                   closer, panicked, hist>>

\* lines 331, 337, 343, 349: m.inner is read and the call goes to that view
ClientOperate(s, Saves) ==
    /\ ~panicked
    /\ client[s].pc = "locked"
    /\ client' = [client EXCEPT ![s].pc = "in", ![s].view = inner]
    /\ IF client[s].op = "Save"
       THEN \E u \in Saves : keyStore' = SaveKey(keyStore, u)
       ELSE keyStore' = keyStore
    /\ UNCHANGED <<router, ServiceURL, nm, runtimeConfig, inner, mu, startCloseCh, doneCh,
                   stopCacheMountSync, imp, importLoop, cancelG, exportLoop, ex,
                   closer, panicked, hist>>

\* lines 330, 336, 342, 348: the call returns and the deferred unlock runs
ClientReturn(s) ==
    /\ ~panicked
    /\ nm.result = "manager"
    /\ client[s].pc = "in"
    /\ client' = [client EXCEPT ![s] = IdleClient]
    /\ mu' = IF client[s].op \in ReadOps
             THEN [mu EXCEPT !.readers = @ \ {s}]
             ELSE [mu EXCEPT !.writer = IF @ = s THEN Nil ELSE @]
    /\ UNCHANGED <<router, keyStore, ServiceURL, nm, runtimeConfig, inner, startCloseCh, doneCh,
                   stopCacheMountSync, imp, importLoop, cancelG, exportLoop, ex,
                   closer, panicked, hist>>

\* lines 387-389: the degenerate manager embeds the local cache, a call goes
\* to it directly
DefaultClientCall(s, Saves) ==
    /\ ~panicked
    /\ nm.result = "default"
    /\ client[s].pc = "idle"
    /\ \E op \in Ops :
         /\ client' = [client EXCEPT ![s] = [pc |-> "in", op |-> op, view |-> LocalView]]
         /\ IF op = "Save"
            THEN \E u \in Saves : keyStore' = SaveKey(keyStore, u)
            ELSE keyStore' = keyStore
    /\ UNCHANGED <<router, ServiceURL, nm, runtimeConfig, inner, mu, startCloseCh, doneCh,
                   stopCacheMountSync, imp, importLoop, cancelG, exportLoop, ex,
                   closer, panicked, hist>>

\* the call on the local cache returns
DefaultClientReturn(s) ==
    /\ ~panicked
    /\ nm.result = "default"
    /\ client[s].pc = "in"
    /\ client' = [client EXCEPT ![s].pc = "idle"]
    /\ UNCHANGED <<router, keyStore, ServiceURL, nm, runtimeConfig, inner, mu, startCloseCh, doneCh,
                   stopCacheMountSync, imp, importLoop, cancelG, exportLoop, ex,
                   closer, panicked, hist>>

\* ---- time ----
\* a caller of Close whose ctx is running
Waiting(c) == closer[c].pc \in {"hook", "select"}

\* some timer fires: the goroutines run at any speed
Expire ==
    /\ ~panicked
    /\ \/ /\ importLoop.timer > 0
          /\ importLoop' = [importLoop EXCEPT !.timer = 0]
          /\ UNCHANGED <<exportLoop, closer>>
       \/ /\ importLoop.ctx > 0
          /\ importLoop' = [importLoop EXCEPT !.ctx = 0]
          /\ UNCHANGED <<exportLoop, closer>>
       \/ /\ exportLoop.timer > 0
          /\ exportLoop' = [exportLoop EXCEPT !.timer = 0]
          /\ UNCHANGED <<importLoop, closer>>
       \/ /\ exportLoop.ctx > 0
          /\ exportLoop' = [exportLoop EXCEPT !.ctx = 0]
          /\ UNCHANGED <<importLoop, closer>>
       \/ \E c \in DOMAIN closer :
            /\ Waiting(c)
            /\ closer[c].ctx > 0
            /\ closer' = [closer EXCEPT ![c].ctx = 0]
            /\ UNCHANGED <<importLoop, exportLoop>>
    /\ UNCHANGED <<router, keyStore, ServiceURL, nm, runtimeConfig, inner, mu, startCloseCh, doneCh,
                   stopCacheMountSync, imp, cancelG, ex, client, panicked, hist>>

\* the calls of Export that take exportCtx and return when it is done; the
\* walk of the key store and the PUT of pushLayer (http.NewRequest without a
\* context, an http.Client without Timeout) do not
ExportCtxBound == {"UpdateCacheRecords", "record", "pushLayer", "UpdateCacheLayers"}

\* a goroutine can take a step that takes no time
Urgent ==
    \/ /\ importLoop.pc = "select"
       /\ \/ startCloseCh = "closed"
          \/ importLoop.timer = 0 /\ hist.imports < MaxImports
    \/ importLoop.pc = "woken"
    \/ importLoop.pc = "Import" /\ imp["loop"].pc = "returned"
    \/ imp["loop"].pc = "ImportCache" /\ importLoop.ctx = 0
    \/ \E p \in Importers :
         \/ imp[p].pc \in {"locked", "Unlock"}
         \/ imp[p].pc = "Lock" /\ CanLock
    \/ nm.pc = "Import" /\ imp["main"].pc = "returned"
    \/ cancelG.pc = "wait" /\ startCloseCh = "closed"
    \/ /\ exportLoop.pc = "select"
       /\ \/ startCloseCh = "closed"
          \/ exportLoop.timer = 0 /\ hist.exports < MaxExports
    \/ exportLoop.pc = "woken"
    \/ exportLoop.pc = "Export" /\ ex.pc = "returned"
    \/ ex.pc \in ExportCtxBound /\ exportLoop.ctx = 0
    \/ \E c \in DOMAIN closer :
         closer[c].pc = "select" /\ CloseSelectReady(doneCh, closer[c].ctx)
    \/ \E s \in DOMAIN client : client[s].pc = "locked"

Dec(t) == IF t > 0 THEN t - 1 ELSE t

\* one unit of time passes for every timer and every context
Tick ==
    /\ ~panicked
    /\ ~Urgent
    /\ importLoop' = [importLoop EXCEPT !.timer = Dec(@), !.ctx = Dec(@)]
    /\ exportLoop' = [exportLoop EXCEPT !.timer = Dec(@), !.ctx = Dec(@)]
    /\ closer' = [c \in DOMAIN closer |->
                    IF Waiting(c)
                    THEN [closer[c] EXCEPT !.ctx = Dec(@),
                             !.elapsed = IF @ < MaxElapsed THEN @ + 1 ELSE @]
                    ELSE closer[c]]
    /\ UNCHANGED <<router, keyStore, ServiceURL, nm, runtimeConfig, inner, mu, startCloseCh, doneCh,
                   stopCacheMountSync, imp, cancelG, ex, client, panicked, hist>>

\* ---- the specifications ----
\* the manager itself: NewManager, Import, the loops, Export; Configs is what
\* GetConfig may answer, Responses what UpdateCacheRecords may answer
Manager(Configs, Responses) ==
    \/ NewManagerStart
    \/ NewManagerGetConfig(Configs)
    \/ NewManagerLaunch
    \/ \E p \in Importers : ImportCacheReturn(p)
    \/ \E p \in Importers : ImportLock(p)
    \/ \E p \in Importers : ImportSwap(p)
    \/ \E p \in Importers : ImportUnlock(p)
    \/ CancelImport
    \/ ImportLoopSelectTimer
    \/ ImportLoopSelectClose
    \/ ImportLoopCall
    \/ ImportLoopReturn
    \/ ExportLoopSelectTimer
    \/ ExportLoopSelectClose
    \/ ExportLoopCall
    \/ ExportLoopReturn
    \/ ExportWalk
    \/ ExportAnnounce(Responses)
    \/ ExportGetRef
    \/ ExportPushLayer
    \/ ExportPutReturn
    \/ ExportCommitReturn

\* the host: the lifecycle calls; Deadlines is the contexts it hands to Close
Host(Deadlines) ==
    \/ StartCacheMountSynchronization
    \/ \E c \in DOMAIN closer : Close(c, Deadlines)
    \/ \E c \in DOMAIN closer : CloseHookReturn(c)
    \/ \E c \in DOMAIN closer : CloseSelect(c)
    \/ \E c \in DOMAIN closer : DefaultClose(c)
    \/ DefaultStartCacheMountSynchronization

\* the solver: the calls of Query, Records, Load and Save
Solver(Saves) ==
    \/ \E s \in DOMAIN client : ClientLock(s)
    \/ \E s \in DOMAIN client : ClientOperate(s, Saves)
    \/ \E s \in DOMAIN client : ClientReturn(s)
    \/ \E s \in DOMAIN client : DefaultClientCall(s, Saves)
    \/ \E s \in DOMAIN client : DefaultClientReturn(s)

\* a configuration that passes the test of line 78, with positive durations
PositiveConfigs == {[ImportPeriod |-> 1, ExportPeriod |-> 1, ExportTimeout |-> 1]}

\* the lifecycle: two callers of Close, no solver call
Init == InitWith({"c1", "c2"}, {})

Next == Manager(PositiveConfigs, FewResponses) \/ Host({NoTimer, 1}) \/ Expire

Spec == Init /\ [][Next]_vars

\* the solver's calls against the Imports: one solver goroutine, one Close
InitSolver == InitWith({"c1"}, {"s1"})

NextSolver ==
    Manager(PositiveConfigs, {<<OkRecord>>}) \/ Host({NoTimer}) \/ Solver({OneSave}) \/ Expire

SpecSolver == InitSolver /\ [][NextSolver]_vars

\* the host and the solver on one manager: two callers of Close, one solver
\* goroutine
InitFacade == InitWith({"c1", "c2"}, {"s1"})

SpecFacade == InitFacade /\ [][NextSolver]_vars

\* the construction, for every answer of GetConfig
InitNew == InitWith({"c1"}, {})

NextNew == Manager(Config, {<<OkRecord>>}) \/ Host({NoTimer}) \/ Expire

SpecNew == InitNew /\ [][NextNew]_vars

\* the lifecycle with a clock: one caller of Close
InitTimed == InitWith({"c1"}, {})

NextTimed == Manager(PositiveConfigs, FewResponses) \/ Host(CtxDeadlines) \/ Tick

SpecTimed == InitTimed /\ [][NextTimed]_vars

\* one run of Export, for every answer of the server and the worker: the
\* manager is up, the Export loop has just taken its timer
Up(closers, clients, store) ==
    /\ ServiceURL = "svc"
    /\ nm = [pc |-> "done", result |-> "manager", err |-> Nil]
    /\ runtimeConfig = [ImportPeriod |-> 1, ExportPeriod |-> 1, ExportTimeout |-> 1]
    /\ inner = NewCombinedCacheManager(1)
    /\ mu = [writer |-> Nil, readers |-> {}]
    /\ startCloseCh = "open"
    /\ doneCh = "open"
    /\ stopCacheMountSync = Nil
    /\ imp = [p \in Importers |->
                IF p = "main"
                THEN [pc |-> "returned", newInner |-> NewCombinedCacheManager(1),
                      err |-> Nil]
                ELSE IdleImport]
    /\ importLoop = [pc |-> "select", timer |-> 1, ctx |-> NoTimer]
    /\ cancelG = [pc |-> "wait", canceled |-> FALSE]
    /\ exportLoop = [pc |-> "woken", shutdown |-> FALSE, timer |-> NoTimer, ctx |-> NoTimer]
    /\ ex = IdleExport
    /\ closer = [c \in closers |-> IdleCloser]
    /\ client = [s \in clients |-> IdleClient]
    /\ panicked = FALSE
    /\ hist = [imports |-> 1, exports |-> 0, exportsAfterClose |-> 0,
               finalExports |-> 0, rpc |-> TRUE, put |-> FALSE, syncCalls |-> 0,
               syncErr |-> Nil]
    /\ keyStore = store
    /\ router = NewRouter

InitExport == Up({"c1", "c2"}, {}, SavedStore)

NextExport ==
    \/ ExportLoopCall
    \/ ExportWalk
    \/ ExportAnnounce(AllResponses)
    \/ ExportGetRef
    \/ ExportPushLayer
    \/ ExportPutReturn
    \/ ExportCommitReturn
    \/ ExportLoopReturn

SpecExport == InitExport /\ [][NextExport]_vars

\* one run of Export over the key store while the solver saves: the store
\* is empty at first, one solver goroutine
InitWalk == Up({}, {"s1"}, EmptyStore)

\* the ExportRecords lists of the runs that are about the walk
NoRemotesRecord == [ref |-> "found", remotesErr |-> FALSE, remotes |-> 0, layers |-> <<>>]
RemotesErrRecord == [ref |-> "found", remotesErr |-> TRUE, remotes |-> 0, layers |-> <<>>]
WalkResponses ==
    {<<>>, <<OkRecord>>, <<BadRecord>>, <<NoRemotesRecord>>, <<RemotesErrRecord>>}

\* the Save calls of the solver in these runs
WalkSaves ==
    {[id |-> "k1", result |-> "r1", deps |-> {}],
     [id |-> "k1", result |-> "r2", deps |-> {"k2"}],
     [id |-> "k2", result |-> "r1", deps |-> {"k1"}]}

NextWalk ==
    \/ ExportLoopCall
    \/ ExportWalkIDs
    \/ ExportWalkNext
    \/ ExportWalkBacklinks
    \/ ExportWalkLoad
    \/ ExportWalkResult
    \/ ExportWalkKeyDone
    \/ ExportAnnounce(WalkResponses)
    \/ ExportGetRef
    \/ ExportPushLayer
    \/ ExportPutReturn
    \/ ExportCommitReturn
    \/ ExportLoopReturn
    \/ \E s \in DOMAIN client : ClientLock(s)
    \/ \E s \in DOMAIN client : ClientOperate(s, WalkSaves)
    \/ \E s \in DOMAIN client : ClientReturn(s)

SpecWalk == InitWalk /\ [][NextWalk]_vars

\* ---- the Router ----
\* the order in which Add goes through r.schemas
NameOrder == <<"root", "a", "b">>

RECURSIVE CurrentSchemas(_, _)
\* lines 37-41: the schemas of the map, from position k of NameOrder on
CurrentSchemas(schemas, k) ==
    IF k > Len(NameOrder) THEN <<>>
    ELSE (IF schemas[NameOrder[k]] = NoSchema THEN <<>> ELSE <<schemas[NameOrder[k]]>>)
         \o CurrentSchemas(schemas, k + 1)

\* lines 33-63: Add, under r.l.Lock
Add(name, schema) ==
    /\ LET newSchemas == Append(CurrentSchemas(router.schemas, 1), schema)
       IN  IF MergeError(newSchemas) # Nil
           THEN router' = [router EXCEPT !.err = MergeError(newSchemas)]
           ELSE router' = [router EXCEPT !.schemas[name] = schema,
                                         !.s = Compiled(newSchemas),
                                         !.h = Compiled(newSchemas),
                                         !.err = Nil]
    /\ UNCHANGED managerVars

\* lines 65-70: Get, under r.l.RLock
Get(name) ==
    /\ router' = [router EXCEPT !.got = router.schemas[name]]
    /\ UNCHANGED managerVars

\* lines 72-78: ServeHTTP takes r.h under r.l.RLock and serves with it
ServeHTTP ==
    /\ router' = [router EXCEPT !.served = router.h]
    /\ UNCHANGED managerVars

InitRouter == InitWith({}, {})

NextRouter ==
    \/ \E name \in SchemaNames, schema \in Schemas : Add(name, schema)
    \/ \E name \in SchemaNames : Get(name)
    \/ ServeHTTP

SpecRouter == InitRouter /\ [][NextRouter]_vars

\* the goroutine of the Import loop with the Import it runs, and the
\* goroutine that cancels importParentCtx
ImportGoroutine ==
    \/ ImportCacheReturn("loop")
    \/ ImportLock("loop")
    \/ ImportSwap("loop")
    \/ ImportUnlock("loop")
    \/ ImportLoopSelectTimer
    \/ ImportLoopSelectClose
    \/ ImportLoopCall
    \/ ImportLoopReturn

\* the goroutine of the Export loop with the Export it runs
ExportGoroutine(Responses) ==
    \/ ExportLoopSelectTimer
    \/ ExportLoopSelectClose
    \/ ExportLoopCall
    \/ ExportLoopReturn
    \/ ExportWalk
    \/ ExportAnnounce(Responses)
    \/ ExportGetRef
    \/ ExportPushLayer
    \/ ExportPutReturn
    \/ ExportCommitReturn

\* the Go scheduler runs every goroutine that can run, and every call of an
\* Import or Export run returns
Fairness ==
    /\ WF_vars(ImportGoroutine)
    /\ WF_vars(CancelImport)
    /\ WF_vars(ExportGoroutine({<<OkRecord>>}))

\* the shutdown under a fair scheduler: two callers of Close
NextLive == Manager(PositiveConfigs, {<<OkRecord>>}) \/ Host({NoTimer, 1}) \/ Expire

SpecLive == Init /\ [][NextLive]_vars /\ Fairness

\* the shutdown under a fair scheduler: one caller of Close
SpecLiveOnce == InitTimed /\ [][NextLive]_vars /\ Fairness

\* ---- the claims ----
Closers == DOMAIN closer

\* the Export loop sends a PUT in this step
PutInitiated == ex.pc # "PUT" /\ ex'.pc = "PUT"

\* C1, as stated: once startCloseCh is closed the Export loop starts exactly
\* one more Export, and doneCh is closed only after it has returned
C1_ExactlyOneExportAfterClose ==
    /\ hist.exportsAfterClose <= 1
    /\ doneCh = "closed" => hist.exportsAfterClose = 1 /\ ex.pc = "idle"

\* C1, amended: once startCloseCh is closed the Export loop starts at least
\* one more Export and exactly one after it has taken the startCloseCh case
\* of its select (the final Export); doneCh is closed only after the final
\* Export has returned
C1_FinalExportBeforeDone ==
    /\ hist.finalExports <= 1
    /\ hist.finalExports <= hist.exportsAfterClose
    /\ exportLoop.shutdown => startCloseCh = "closed"
    /\ doneCh = "closed" =>
         /\ hist.finalExports = 1
         /\ exportLoop.pc = "exited"
         /\ ex.pc = "idle"

\* an Export started by the timer and the final Export both began after the
\* close of startCloseCh, and doneCh is closed
C1_Witness ==
    /\ doneCh = "closed"
    /\ hist.finalExports = 1
    /\ hist.exportsAfterClose = 2

\* C2, as stated: after a Close has returned no PUT is sent
C2_NoPutAfterCloseReturned ==
    [][(\E c \in Closers : closer[c].pc = "returned") => ~PutInitiated]_vars

\* C2, amended: once doneCh is closed no PUT is sent, so none is after a
\* Close that returned because doneCh was closed; a Close that returned
\* because ctx was done before doneCh was closed may be followed by the PUTs
\* of the Export runs that are not finished
C2_NoPutAfterDone ==
    [][doneCh = "closed" => ~PutInitiated]_vars

\* a Close has returned on the closed doneCh after an Export that sent a PUT
C2_Witness ==
    \E c \in Closers :
      /\ closer[c].pc = "returned"
      /\ closer[c].ctx # 0
      /\ doneCh = "closed"
      /\ hist.put

\* what the hook of a caller returned, nil when there was no hook
HookError(c) == IF closer[c].hook = "not called" THEN Nil ELSE closer[c].hook

\* C9: Close closes startCloseCh before it calls the hook; whatever the hook
\* returns, Close then waits for doneCh or ctx, doneCh is closed only after
\* the final Export, and Close returns the hook's error (nil without a hook
\* or when the hook returned nil, also when ctx is done)
C9_CloseReturnsHookError ==
    \A c \in Closers :
      nm.result = "manager" =>
        /\ closer[c].pc \in {"hook", "select", "returned"} => startCloseCh = "closed"
        /\ closer[c].pc \in {"idle", "hook"} => closer[c].hook = "not called"
        /\ closer[c].pc = "returned" =>
             /\ closer[c].ret = HookError(c)
             /\ CloseSelectReady(doneCh, closer[c].ctx)
             /\ closer[c].ctx # 0 => hist.finalExports = 1 /\ ex.pc = "idle"

\* a Close whose hook failed has returned the hook's error after the final
\* Export, and another has returned nil on a ctx that was done
C9_Witness ==
    \E c \in Closers :
      /\ closer[c].pc = "returned"
      /\ closer[c].hook = "hook error"
      /\ closer[c].ret = "hook error"
      /\ doneCh = "closed"
      /\ hist.finalExports = 1

\* C10: no close of a channel that is already closed is attempted, however
\* many times Close is called
C10_ChannelsClosedOnce ==
    /\ ~panicked
    /\ \A c \in Closers : closer[c].pc # "panicked"

Max(a, b) == IF a >= b THEN a ELSE b

\* the bound C3 states for a caller: max(ctx deadline, ExportTimeout), and
\* ExportTimeout for a ctx without deadline
C3Bound(c) ==
    IF closer[c].deadline = NoTimer THEN runtimeConfig.ExportTimeout
    ELSE Max(closer[c].deadline, runtimeConfig.ExportTimeout)

\* C3, as stated: a Close has returned when max(ctx deadline, ExportTimeout)
\* has passed since its call, ExportTimeout when ctx has no deadline
C3_CloseWithinExportTimeout ==
    \A c \in Closers :
      (nm.result = "manager" /\ closer[c].pc \in {"hook", "select", "returned"}) =>
        closer[c].elapsed <= C3Bound(c)

\* C3, amended: Close returns no later than the later of the ctx deadline and
\* the return of the hook; with a ctx without deadline it returns only when
\* doneCh is closed, that is after the Export that was running when
\* startCloseCh was closed and the final Export have returned, which can be
\* later than ExportTimeout after the call
C3_CloseWithinDeadlineOrDone ==
    \A c \in Closers :
      nm.result = "manager" =>
        /\ (closer[c].deadline # NoTimer /\ closer[c].pc \in {"select", "returned"}) =>
             closer[c].elapsed <= Max(closer[c].deadline, closer[c].hookAt)
        /\ (closer[c].deadline = NoTimer /\ closer[c].pc = "returned") =>
             /\ doneCh = "closed"
             /\ hist.finalExports = 1
             /\ ex.pc = "idle"

\* a Close without hook and without deadline has returned later than
\* ExportTimeout after its call
C3_Witness ==
    \E c \in Closers :
      /\ closer[c].pc = "returned"
      /\ closer[c].deadline = NoTimer
      /\ closer[c].hook = "not called"
      /\ closer[c].elapsed > runtimeConfig.ExportTimeout
      /\ doneCh = "closed"

Clients == DOMAIN client

\* C4: m.inner is written only by an Import that holds the write lock, with
\* the view that this Import has built; a call of Query, Records, Load or
\* Save holds the lock and works on m.inner as it is, which is the view of
\* the initial Import or of one later Import, never nil
C4_ViewSwappedUnderLock ==
    /\ [](\A s \in Clients :
            (nm.result = "manager" /\ client[s].pc = "in") =>
              /\ client[s].view = inner
              /\ \E g \in 1 .. hist.imports : inner = NewCombinedCacheManager(g)
              /\ IF client[s].op \in ReadOps THEN s \in mu.readers /\ mu.writer = Nil
                 ELSE mu.writer = s /\ mu.readers = {})
    /\ [][inner' # inner =>
           \E p \in Importers :
             /\ imp[p].pc = "locked"
             /\ mu.writer = p
             /\ mu.readers = {}
             /\ inner' = imp[p].newInner
             /\ \E g \in 1 .. hist.imports : inner' = NewCombinedCacheManager(g)]_vars

\* a solver call works on the view that the Import of the loop has swapped in
C4_Witness ==
    /\ nm.result = "manager"
    /\ \E s \in Clients :
         /\ client[s].pc = "in"
         /\ client[s].view = NewCombinedCacheManager(2)
         /\ imp["loop"].pc = "idle"

\* C5: with an empty ServiceURL NewManager returns the degenerate manager;
\* no loop, no Import, no Export and no RPC is started, every solver call
\* goes to the local cache, Close and StartCacheMountSynchronization return
\* nil without waiting, every time
C5_DegenerateManager ==
    ServiceURL = "" =>
      /\ nm.result \in {"none", "default"}
      /\ importLoop.pc = "off" /\ exportLoop.pc = "off" /\ cancelG.pc = "off"
      /\ \A p \in Importers : imp[p].pc = "idle"
      /\ ex.pc = "idle"
      /\ ~hist.rpc /\ hist.imports = 0 /\ hist.exports = 0 /\ ~hist.put
      /\ \A s \in Clients : client[s].pc = "in" => client[s].view = LocalView
      /\ \A c \in Closers :
           /\ closer[c].pc \in {"idle", "returned"}
           /\ closer[c].pc = "returned" => closer[c].ret = Nil
      /\ hist.syncErr = Nil
      /\ startCloseCh = "open" /\ doneCh = "open" /\ ~panicked

\* on the degenerate manager every Close has returned, two calls of
\* StartCacheMountSynchronization have, and a solver call is in progress
C5_Witness ==
    /\ ServiceURL = ""
    /\ nm.result = "default"
    /\ \A c \in Closers : closer[c].pc = "returned"
    /\ hist.syncCalls >= 2
    /\ \E s \in Clients : client[s].pc = "in"

\* no goroutine of NewManager has been started
NoBackgroundTask ==
    /\ importLoop.pc = "off"
    /\ exportLoop.pc = "off"
    /\ cancelG.pc = "off"
    /\ imp["loop"].pc = "idle"
    /\ ex.pc = "idle"
    /\ hist.exports = 0

\* C6: when the initial Import fails NewManager returns its error and no
\* manager, and no goroutine is started
C6_InitialImportError ==
    /\ (nm.pc = "done" /\ imp["main"].pc = "returned" /\ imp["main"].err # Nil) =>
         /\ nm.result = "error"
         /\ nm.err = imp["main"].err
    /\ nm.result = "error" => NoBackgroundTask /\ hist.imports <= 1

\* NewManager has returned the error of an initial Import that found a
\* layer without diffID
C6_Witness ==
    /\ nm.result = "error"
    /\ imp["main"].pc = "returned"
    /\ nm.err = "missing diffID"

\* C7: NewManager goes on to the initial Import and to the goroutines only
\* with an ImportPeriod, ExportPeriod and ExportTimeout that are all
\* strictly positive
C7_NonPositiveConfigRejected ==
    (hist.imports > 0 \/ nm.result = "manager" \/ ~NoBackgroundTask) =>
      /\ runtimeConfig.ImportPeriod > 0
      /\ runtimeConfig.ExportPeriod > 0
      /\ runtimeConfig.ExportTimeout > 0

\* the record returned an error in the upload phase: GetRemotes failed or a
\* push of a layer of its first remote did
Errored(record) ==
    /\ record.ref = "found"
    /\ \/ record.remotesErr
       \/ record.remotes > 0 /\ \E k \in 1 .. Len(record.layers) : record.layers[k] # "ok"

\* the ref of the record was found, it produced a remote and all its layers
\* were pushed with status 200
Pushed(record) ==
    /\ record.ref = "found"
    /\ ~record.remotesErr
    /\ record.remotes > 0
    /\ \A k \in 1 .. Len(record.layers) : record.layers[k] = "ok"

RECURSIVE PushedRecords(_, _)
\* one RecordLayers for every pushed record from position i on
PushedRecords(records, i) ==
    IF i > Len(records) THEN <<>>
    ELSE (IF Pushed(records[i]) THEN <<RecordLayers(i, records[i])>> ELSE <<>>)
         \o PushedRecords(records, i + 1)

\* C8: UpdateCacheLayers is called only when no requested record returned an
\* error, with exactly one entry for every pushed record and none for a
\* skipped one; when a record returned an error Export returns an error and
\* has not called UpdateCacheLayers
C8_ReportedRecords ==
    /\ ex.request.sent =>
         /\ \A i \in 1 .. Len(ex.records) : ~Errored(ex.records[i])
         /\ ex.request.UpdatedRecords = PushedRecords(ex.records, 1)
    /\ (ex.pc = "returned" /\ \E i \in 1 .. Len(ex.records) : Errored(ex.records[i])) =>
         /\ ex.err # Nil
         /\ ~ex.request.sent

\* UpdateCacheLayers is called for two requested records of which the first
\* was skipped and the second pushed with two layers
C8_Witness ==
    /\ ex.pc = "UpdateCacheLayers"
    /\ Len(ex.records) = 2
    /\ ex.records[1].ref = "not found"
    /\ Len(ex.records[2].layers) = 2
    /\ Len(ex.request.UpdatedRecords) = 1

\* an Import run is executing: between its call and its return
Running(p) == imp[p].pc \in {"ImportCache", "Lock", "locked", "Unlock"}

\* an Export run is executing
Exporting == ex.pc \notin {"idle", "returned"}

\* C11: at most one Import and at most one Export is executing: the initial
\* Import runs inside NewManager before the loops exist, an Import of the loop
\* runs only while the loop is inside its call of Import and an Export only
\* while the Export loop is inside its call of Export
C11_OneImportOneExport ==
    /\ Cardinality({p \in Importers : Running(p)}) <= 1
    /\ Running("main") => nm.pc = "Import" /\ importLoop.pc = "off"
    /\ importLoop.pc # "off" => imp["main"].pc = "returned"
    /\ Running("loop") => importLoop.pc = "Import"
    /\ importLoop.pc # "Import" => imp["loop"].pc = "idle"
    /\ Exporting => exportLoop.pc = "Export"
    /\ exportLoop.pc # "Export" => ex.pc = "idle"

\* an Import of the loop and an Export are executing at the same time
C11_Witness == Running("loop") /\ ex.pc = "PUT" /\ hist.imports = 2

\* the errors pushLayer returns
UploadErrors == {"pushLayer error", "http error", "unexpected status code"}

\* a push of a layer of the record fails
UploadFails(record) ==
    /\ record.ref = "found"
    /\ ~record.remotesErr
    /\ record.remotes > 0
    /\ \E k \in 1 .. Len(record.layers) : record.layers[k] # "ok"

\* C12, as stated: a failing upload of a layer ends its record only; while
\* records are left in ExportRecords a step of pushLayer never makes Export
\* return
C12_UploadFailureAbortsRecordOnly ==
    [][(ex.pc \in {"pushLayer", "PUT"} /\ ex.i < Len(ex.records)) =>
         ex'.pc # "returned"]_vars

\* C12, amended: a failing upload of a layer makes Export return the error at
\* once, without the UpdateCacheLayers call; no record after the failing one
\* is processed in this run
C12_UploadFailureAbortsExport ==
    /\ ex.err \in UploadErrors =>
         /\ ex.pc = "returned"
         /\ ~ex.request.sent
         /\ UploadFails(ex.records[ex.i])
         /\ ex.records[ex.i].layers[ex.j] # "ok"
    /\ \A k \in 1 .. Len(ex.records) : UploadFails(ex.records[k]) => ex.i <= k

\* the PUT of the only layer of the first of two records was answered with
\* status 500: Export has returned and the second record was not looked at
C12_Witness ==
    /\ ex.pc = "returned"
    /\ ex.err = "unexpected status code"
    /\ Len(ex.records) = 2
    /\ ex.i = 1
    /\ Pushed(ex.records[2])

\* the record is skipped: its ref is not found, or it yields no remote
Skipped(record) ==
    \/ record.ref # "found"
    \/ ~record.remotesErr /\ record.remotes = 0

\* C13: a record whose ref is not found or has no remote is skipped without
\* an error: an error of the upload phase is the error of a record that is not
\* a skipped one, and when no record fails every record is gone through, the
\* pushed ones after a skipped one are reported and UpdateCacheLayers is called
C13_SkippedRecordNoError ==
    /\ (ex.pc = "returned" /\ ex.err # Nil /\ Len(ex.records) > 0) =>
         \/ ex.err = "UpdateCacheLayers error"
         \/ ~Skipped(ex.records[ex.i]) /\ Errored(ex.records[ex.i])
    /\ (ex.pc = "returned" /\ Len(ex.records) > 0
          /\ \A k \in 1 .. Len(ex.records) : ~Errored(ex.records[k])) =>
         /\ ex.request.sent
         /\ ex.i = Len(ex.records)
         /\ \A k \in 1 .. Len(ex.records) : \A m \in k + 1 .. Len(ex.records) :
              (Skipped(ex.records[k]) /\ Pushed(ex.records[m])) =>
                \E n \in 1 .. Len(ex.request.UpdatedRecords) :
                  ex.request.UpdatedRecords[n] = RecordLayers(m, ex.records[m])

\* Export has returned nil for a record without remotes followed by a record
\* that was pushed and reported
C13_Witness ==
    /\ ex.pc = "returned"
    /\ ex.err = Nil
    /\ Len(ex.records) = 2
    /\ ex.records[1].ref = "found" /\ Skipped(ex.records[1])
    /\ Pushed(ex.records[2])
    /\ ex.request.UpdatedRecords = <<RecordLayers(2, ex.records[2])>>

\* the errors Import returns
ImportErrors ==
    {"ImportCache error", "missing annotations", "missing diffID",
     "MarshalText error", "parse error", "key storage error"}

\* C16: an Import that fails has returned without taking the lock and
\* without a new view, and the step in which it fails leaves m.inner as it
\* is; m.inner is replaced only by an Import that does not fail
C16_FailedImportKeepsView ==
    /\ [](\A p \in Importers :
            imp[p].err # Nil =>
              /\ imp[p].err \in ImportErrors
              /\ imp[p].pc = "returned"
              /\ imp[p].newInner = NilView
              /\ mu.writer # p)
    /\ [][\A p \in Importers :
            /\ (imp[p].err = Nil /\ imp'[p].err # Nil) => inner' = inner
            /\ (imp[p].err # Nil /\ imp'[p].err # Nil) =>
                 (inner' # inner => \E q \in Importers \ {p} :
                                     imp[q].pc = "locked" /\ imp[q].err = Nil)]_vars

\* the Import of the loop has failed on a layer without DiffID and the view of
\* the initial Import is still served
C16_Witness ==
    /\ imp["loop"].pc = "returned"
    /\ imp["loop"].err = "missing diffID"
    /\ inner = NewCombinedCacheManager(1)
    /\ nm.result = "manager"

\* the Import loop calls Import in this step
ImportBegins == imp["loop"].pc = "idle" /\ imp'["loop"].pc = "ImportCache"

\* C19, as stated: no Import begins once startCloseCh is closed
C19_NoImportAfterClose ==
    [][ImportBegins => startCloseCh = "open"]_vars

\* C19, amended: with startCloseCh closed the Import loop leaves its select
\* by the timer case only when the timer has fired, and otherwise returns;
\* once it has returned no Import begins and m.inner is replaced only by an
\* Import that was called before
C19_NoImportAfterLoopExit ==
    [][/\ (startCloseCh = "closed" /\ importLoop.pc = "select"
            /\ importLoop'.pc # "select") =>
             \/ importLoop'.pc = "exited"
             \/ importLoop.timer = 0 /\ importLoop'.pc = "woken"
       /\ importLoop.pc = "exited" =>
             /\ importLoop'.pc = "exited"
             /\ ~ImportBegins
             /\ inner' = inner]_vars

\* the loop has returned on startCloseCh after an Import of the loop has
\* replaced the view
C19_Witness ==
    /\ startCloseCh = "closed"
    /\ importLoop.pc = "exited"
    /\ hist.imports = 2
    /\ inner = NewCombinedCacheManager(2)

\* C18: once startCloseCh is closed, doneCh is closed and both loops have
\* returned at some later time
C18_ShutdownCompletes ==
    (startCloseCh = "closed") ~>
      (doneCh = "closed" /\ importLoop.pc = "exited" /\ exportLoop.pc = "exited")

\* the schemas the name-to-schema map of the router holds
MapSchemas == {router.schemas[n] : n \in {m \in SchemaNames : router.schemas[m] # NoSchema}}

\* C20: the compiled schema and the handler ServeHTTP uses are the merge of
\* exactly the schemas held in r.schemas, and an Add that fails changes
\* neither the map nor the compiled schema
C20_CompiledIsMergeOfMap ==
    /\ [](router.s = MapSchemas /\ router.h = router.s /\ router.served \subseteq router.s)
    /\ [][router'.err # Nil =>
           /\ router'.schemas = router.schemas
           /\ router'.s = router.s
           /\ router'.h = router.h]_vars

\* C14: the request Export sends to UpdateCacheRecords has exactly one
\* CacheKey per key ID Walk visited and one Link per backlink WalkBacklinks
\* visited; the Results of a key are the results that loaded as worker refs
\* (the key is sent even when there are none), and a result that does not
\* load or is not a worker ref never makes Export return an error.
WorkerResultsOf(id) ==
    LET mine == SelectSeq(ex.seenResults, LAMBDA r : r[1] = id /\ r[3] = "worker ref")
    IN  [k \in 1 .. Len(mine) |-> Result(id, mine[k][2])]
LoadingResult == ex.pc = "loaded" \/ (ex.pc = "WalkResults" /\ ex.todo # <<>>)
C14_RequestIsWhatWalkVisited ==
    /\ [](ex.req.sent =>
            /\ [k \in 1 .. Len(ex.req.CacheKeys) |-> ex.req.CacheKeys[k].ID] = ex.visited
            /\ [k \in 1 .. Len(ex.req.Links) |->
                    <<ex.req.Links[k].ID, ex.req.Links[k].LinkedID>>] = ex.seenLinks
            /\ \A k \in 1 .. Len(ex.req.CacheKeys) :
                   ex.req.CacheKeys[k].Results = WorkerResultsOf(ex.req.CacheKeys[k].ID))
    /\ [][LoadingResult => ex'.err = Nil /\ ex'.pc # "returned"]_vars
C14_Witness ==
    /\ ex.pc = "returned"
    /\ ex.err = Nil
    /\ ex.req.sent
    /\ Len(ex.req.CacheKeys) = 2
    /\ Len(ex.req.Links) >= 1
    /\ \E k \in 1 .. 2 : ex.req.CacheKeys[k].Results = <<>>
    /\ \E k \in 1 .. 2 : ex.req.CacheKeys[k].Results # <<>>
    /\ \E r \in Range(ex.seenResults) : r[3] = "load error"
    /\ \E r \in Range(ex.seenResults) : r[3] = "other ref"

\* C15: in every UpdateCacheRecords request Export sends, the ID and the
\* LinkedID of every Link are IDs of CacheKeys of that same request, also
\* when Save adds keys and links to the store during the walk.
RequestKeyIDs == {ex.req.CacheKeys[k].ID : k \in 1 .. Len(ex.req.CacheKeys)}
C15_LinksWithinBatch ==
    ex.req.sent =>
        \A l \in Range(ex.req.Links) : l.ID \in RequestKeyIDs /\ l.LinkedID \in RequestKeyIDs

\* C17: every result loaded in the walk and every cache ref obtained in the
\* upload phase is released exactly once before Export returns, on every
\* exit path: Export never holds more than the one ref it works on, and when
\* it returns it holds none.
C17_RefsReleased ==
    /\ ex.held \in {0, 1}
    /\ ex.acquired = ex.released + ex.held
    /\ ex.pc = "returned" => ex.held = 0
C17_Witness ==
    /\ ex.pc = "returned"
    /\ ex.err \in UploadErrors
    /\ ex.acquired >= 3
    /\ \E r \in Range(ex.seenResults) : r[3] = "other ref"
    /\ \E r \in Range(ex.seenResults) : r[3] = "worker ref"

\* InitExport is a state of Spec
InitExportUnreached == ~InitExport
====
